---- MODULE Spec2Model ----
(***************************************************************************)
(* Model of parse_pdfs.py: a batch driver (main) that lists the PDF files  *)
(* of a folder, sorts them, runs the table extractor (parse_pdf_file) on   *)
(* each one and hands the aggregate record list to the report writer       *)
(* (create_excel_with_formatting).                                         *)
(*                                                                         *)
(* Text is a sequence of Unicode code points (str == Seq(Nat)), so that    *)
(* lower(), strip(), replace(), the "in" test and the regular expressions  *)
(* are computed character by character.  An optional value (None in the    *)
(* source) is a sequence of length 0, a present value x is <<x>>.          *)
(* Decimal numbers (float) are integers counting hundredths: 9.5 is 950.   *)
(***************************************************************************)
EXTENDS Integers, Sequences, FiniteSets, TLC

VARIABLES
  pc,                   \* where the run stands: "list", "files", "page", "table",
                        \* "row", "return", "excel", "done"
  pdf_files, file_idx,  \* main: the sorted names, the index of the current one
  all_data,             \* main: the aggregate list
  returned,             \* the calls of parse_pdf_file that returned, in call order
  pdf,                  \* parse_pdf_file: the document at pdf_path
  filename_without_ext, data, raised,
  page_num, table_idx,  \* the current page and the current table of it (from 1)
  header_idx, name_col, qty_col, manufacturer_col,
  row_pos, row,         \* the index (from 1) of the current row of table, and the row
  current_file, row_idx, idx, ws, saved,   \* create_excel_with_formatting
  row_log               \* the sheet rows written, in the order of writing

vars == <<pc, pdf_files, file_idx, all_data, returned, pdf, filename_without_ext,
          data, raised, page_num, table_idx, header_idx, name_col, qty_col,
          manufacturer_col, row_pos, row, current_file, row_idx, idx, ws, saved,
          row_log>>

main_vars == <<pdf_files, file_idx, all_data, returned>>

parse_vars == <<pdf, filename_without_ext, data, raised, page_num, table_idx,
                header_idx, name_col, qty_col, manufacturer_col, row_pos, row>>

excel_vars == <<current_file, row_idx, idx, ws, saved, row_log>>

(***************************************************************************)
(* Optional values and text primitives                                     *)
(***************************************************************************)
None == <<>>

Some(x) == <<x>>

Val(o) == o[1]

SetMin(S) == CHOOSE x \in S : \A y \in S : x <= y

SetMax(S) == CHOOSE x \in S : \A y \in S : y <= x

IsDigit(c) == c >= 48 /\ c <= 57

\* str.isspace / the class \s of re
IsSpace(c) == c \in {9, 10, 11, 12, 13, 28, 29, 30, 31, 32, 133, 160}

\* one character of str.lower(): ASCII, Latin-1 and Cyrillic capitals
LowerChar(c) ==
  IF (c >= 65 /\ c <= 90) \/ (c >= 1040 /\ c <= 1071)
       \/ (c >= 192 /\ c <= 222 /\ c # 215)
  THEN c + 32
  ELSE IF c >= 1024 /\ c <= 1039 THEN c + 80 ELSE c

Lower(s) == [i \in 1..Len(s) |-> LowerChar(s[i])]

\* needle in s
Contains(s, needle) ==
  \E i \in 0..(Len(s) - Len(needle)) : SubSeq(s, i + 1, i + Len(needle)) = needle

\* s.strip()
Strip(s) ==
  LET keep == {i \in 1..Len(s) : ~IsSpace(s[i])}
  IN IF keep = {} THEN <<>> ELSE SubSeq(s, SetMin(keep), SetMax(keep))

\* s.replace(old, new) for single characters old and new
ReplaceChar(s, old, new) == [i \in 1..Len(s) |-> IF s[i] = old THEN new ELSE s[i]]

\* s.replace(old, '') for a single character old
RemoveChar(s, old) == SelectSeq(s, LAMBDA c : c # old)

\* s.replace(old, '') for an old no two occurrences of which can overlap (such
\* as '.pdf'): every occurrence is removed
RemoveAll(s, old) ==
  LET starts == {i \in 1..(Len(s) - Len(old) + 1) : SubSeq(s, i, i + Len(old) - 1) = old}
      kept == {i \in 1..Len(s) : ~\E j \in starts : j <= i /\ i < j + Len(old)}
  IN [k \in 1..Cardinality(kept) |->
        s[CHOOSE i \in kept : Cardinality({j \in kept : j <= i}) = k]]

\* s.endswith(suffix)
EndsWith(s, suffix) ==
  Len(s) >= Len(suffix) /\ SubSeq(s, Len(s) - Len(suffix) + 1, Len(s)) = suffix

\* a < b for str: lexicographic by code point
StrLess(a, b) ==
  \E i \in 1..Len(b) :
    /\ i <= Len(a) + 1
    /\ SubSeq(a, 1, i - 1) = SubSeq(b, 1, i - 1)
    /\ (i = Len(a) + 1 \/ a[i] < b[i])

\* first index >= i of s that holds no digit (Len(s) + 1 when there is none)
DigitsEnd(s, i) ==
  SetMin({j \in i..(Len(s) + 1) : j = Len(s) + 1 \/ ~IsDigit(s[j])})

\* first index >= i of s that holds no whitespace
SpacesEnd(s, i) ==
  SetMin({j \in i..(Len(s) + 1) : j = Len(s) + 1 \/ ~IsSpace(s[j])})

\* end (exclusive) of the longest match of \d+[,.]?\d* that starts at i
DecimalEnd(s, i) ==
  LET e1 == DigitsEnd(s, i)
  IN IF e1 <= Len(s) /\ s[e1] \in {44, 46} THEN DigitsEnd(s, e1 + 1) ELSE e1

RECURSIVE DigitsToInt(_)
\* int() of a run of decimal digits
DigitsToInt(ds) ==
  IF ds = <<>> THEN 0
  ELSE DigitsToInt(SubSeq(ds, 1, Len(ds) - 1)) * 10 + (ds[Len(ds)] - 48)

\* float() of digits[.digits], in hundredths (the inputs hold at most two
\* fractional digits)
ParseFloat(s) ==
  LET e1 == DigitsEnd(s, 1)
      ip == SubSeq(s, 1, e1 - 1)
      fp == SubSeq(s, e1 + 1, Len(s))
      frac == IF Len(fp) = 0 THEN 0
              ELSE IF Len(fp) = 1 THEN (fp[1] - 48) * 10
              ELSE DigitsToInt(SubSeq(fp, 1, 2))
  IN DigitsToInt(ip) * 100 + frac

(***************************************************************************)
(* Literals of the source                                                  *)
(***************************************************************************)
\* '.pdf'
s_pdf_ext ==
  <<46, 112, 100, 102>>
\* '/Users/exmuzzy2/git/fedor/pdf'
pdf_folder ==
  <<47, 85, 115, 101, 114, 115, 47, 101, 120, 109, 117, 122, 122, 121, 50, 47, 103, 105, 116, 47, 102, 101, 100, 111, 114, 47, 112, 100, 102>>
\* 'труба'
s_truba ==
  <<1090, 1088, 1091, 1073, 1072>>
\* 'футляр'
s_futlyar ==
  <<1092, 1091, 1090, 1083, 1103, 1088>>
\* 'муфта'
s_mufta ==
  <<1084, 1091, 1092, 1090, 1072>>
\* 'отвод'
s_otvod ==
  <<1086, 1090, 1074, 1086, 1076>>
\* 'втулка'
s_vtulka ==
  <<1074, 1090, 1091, 1083, 1082, 1072>>
\* 'фланец'
s_flanets ==
  <<1092, 1083, 1072, 1085, 1077, 1094>>
\* 'Наименование'
s_Naimenovanie ==
  <<1053, 1072, 1080, 1084, 1077, 1085, 1086, 1074, 1072, 1085, 1080, 1077>>
\* 'техническ'
s_tekhnichesk ==
  <<1090, 1077, 1093, 1085, 1080, 1095, 1077, 1089, 1082>>
\* 'колич'
s_kolich ==
  <<1082, 1086, 1083, 1080, 1095>>
\* 'количество'
s_kolichestvo ==
  <<1082, 1086, 1083, 1080, 1095, 1077, 1089, 1090, 1074, 1086>>
\* 'Завод'
s_Zavod ==
  <<1047, 1072, 1074, 1086, 1076>>
\* 'изготовитель'
s_izgotovitel ==
  <<1080, 1079, 1075, 1086, 1090, 1086, 1074, 1080, 1090, 1077, 1083, 1100>>
\* fittings = ['муфта', 'отвод', 'втулка', 'фланец']
fittings == <<s_mufta, s_otvod, s_vtulka, s_flanets>>

\* headers = ['Файл', 'Номенклатура', 'Количество', 'Масса', 'Завод изготовитель']
headers ==
  <<<<1060, 1072, 1081, 1083>>,
    <<1053, 1086, 1084, 1077, 1085, 1082, 1083, 1072, 1090, 1091, 1088, 1072>>,
    <<1050, 1086, 1083, 1080, 1095, 1077, 1089, 1090, 1074, 1086>>,
    <<1052, 1072, 1089, 1089, 1072>>,
    <<1047, 1072, 1074, 1086, 1076, 32, 1080, 1079, 1075, 1086, 1090, 1086, 1074, 1080, 1090, 1077, 1083, 1100>>>>

\* the separators [хx×] of both patterns: Cyrillic ha, Latin x, the times sign
Separators == {1093, 120, 215}

\* the diameter signs [∅Ø] of pattern2
DiameterSigns == {8709, 216}

\* PE_DENSITY = 0.96 g/cm3, in hundredths
PE_DENSITY == 96

\* math.pi is 3.1415927 to eight digits: its first four digits, and the next four
PI_HIGH == 3141

PI_LOW == 5927

(***************************************************************************)
(* calculate_pipe_mass_per_meter                                           *)
(***************************************************************************)
\* floor(math.pi * a) for 0 <= a < 6 * 10^8, in limbs of four digits so that no
\* intermediate product leaves the machine integers
MulPi(a) ==
  LET a1 == a \div 10000
      a0 == a % 10000
  IN a1 * PI_HIGH * 10
       + (a1 * PI_LOW + a0 * PI_HIGH + (a0 * PI_LOW) \div 10000) \div 1000

\* floor(a * b / c) when (c - 1) * b is a machine integer
MulDiv(a, b, c) == (a \div c) * b + ((a % c) * b) \div c

\* round(n / unit) to an integer, ties to even (Python's round), n >= 0
RoundHalfEven(n, unit) ==
  LET q == n \div unit
      r == n % unit
  IN IF 2 * r < unit THEN q
     ELSE IF 2 * r > unit THEN q + 1
     ELSE IF q % 2 = 0 THEN q ELSE q + 1

\* a variant that takes the outer diameter for the mean diameter D - e
CalculatePipeMassPerMeter_OuterDiameter(diameter, wall_thickness) ==
  RoundHalfEven(MulDiv(MulPi(diameter * 100 * wall_thickness), PE_DENSITY, 10000), 1000)

\* mass = math.pi * (diameter - wall_thickness) * wall_thickness * PE_DENSITY / 1000,
\* round(mass, 2).  diameter in mm, wall_thickness and the result in hundredths.
\* x is (D - e) * e in 10^-4 mm2, m5 the mass in 10^-5 kg/m (fixed point, exact
\* to one unit of m5)
CalculatePipeMassPerMeter(diameter, wall_thickness) ==
  LET x == (diameter * 100 - wall_thickness) * wall_thickness
      ax == IF x < 0 THEN -x ELSE x
      m5 == MulDiv(MulPi(ax), PE_DENSITY, 10000)
      m == RoundHalfEven(m5, 1000)
  IN IF x < 0 THEN -m ELSE m

(***************************************************************************)
(* extract_pipe_parameters                                                 *)
(***************************************************************************)
\* re.search(r'(\d+)\s*[хx×]\s*(\d+[,.]?\d*)', s): the groups of the leftmost
\* match, or None
SearchPattern1(s) ==
  LET sepAt(i) == SpacesEnd(s, DigitsEnd(s, i))
      numAt(i) == SpacesEnd(s, sepAt(i) + 1)
      starts == {i \in 1..Len(s) :
                   /\ IsDigit(s[i])
                   /\ sepAt(i) <= Len(s)
                   /\ s[sepAt(i)] \in Separators
                   /\ numAt(i) <= Len(s)
                   /\ IsDigit(s[numAt(i)])}
  IN IF starts = {} THEN None
     ELSE LET i == SetMin(starts)
          IN Some(<<SubSeq(s, i, DigitsEnd(s, i) - 1),
                    SubSeq(s, numAt(i), DecimalEnd(s, numAt(i)) - 1)>>)

\* re.search(r'[∅Ø](\d+)[хx×](\d+[,.]?\d*)', s)
SearchPattern2(s) ==
  LET sepAt(i) == DigitsEnd(s, i + 1)
      starts == {i \in 1..Len(s) :
                   /\ s[i] \in DiameterSigns
                   /\ i + 1 <= Len(s)
                   /\ IsDigit(s[i + 1])
                   /\ sepAt(i) <= Len(s)
                   /\ s[sepAt(i)] \in Separators
                   /\ sepAt(i) + 1 <= Len(s)
                   /\ IsDigit(s[sepAt(i) + 1])}
  IN IF starts = {} THEN None
     ELSE LET i == SetMin(starts)
          IN Some(<<SubSeq(s, i + 1, sepAt(i) - 1),
                    SubSeq(s, sepAt(i) + 1, DecimalEnd(s, sepAt(i) + 1) - 1)>>)

\* (diameter, thickness) or None
ExtractPipeParameters(nomenclature) ==
  LET m1 == SearchPattern1(nomenclature)
      match == IF m1 # None THEN m1 ELSE SearchPattern2(nomenclature)
  IN IF match # None
     THEN Some(<<DigitsToInt(Val(match)[1]),
                 ParseFloat(ReplaceChar(Val(match)[2], 44, 46))>>)
     ELSE None

(***************************************************************************)
(* is_pipe, is_pipe_or_fitting                                             *)
(***************************************************************************)
IsPipe(nomenclature) ==
  IF nomenclature = <<>> THEN FALSE
  ELSE LET nomenclature_lower == Lower(nomenclature)
       IN Contains(nomenclature_lower, s_truba) \/ Contains(nomenclature_lower, s_futlyar)

\* a variant without the keyword filter
IsPipeOrFitting_KeepAll(nomenclature) == nomenclature # <<>>

IsPipeOrFitting(nomenclature) ==
  IF nomenclature = <<>> THEN FALSE
  ELSE LET nomenclature_lower == Lower(nomenclature)
       IN IF Contains(nomenclature_lower, s_truba) \/ Contains(nomenclature_lower, s_futlyar)
          THEN TRUE
          ELSE \E k \in 1..Len(fittings) : Contains(nomenclature_lower, fittings[k])

(***************************************************************************)
(* parse_pdf_file                                                          *)
(*                                                                         *)
(* A document is [open_ok, pages]; open_ok = FALSE is a pdfplumber.open    *)
(* that raises.  A page is [extract_ok, tables]; extract_ok = FALSE is an  *)
(* extract_tables() that raises.  A table is a sequence of rows, a row a   *)
(* sequence of cells (the empty row also stands for a None row), a cell    *)
(* None or Some(text).                                                     *)
(***************************************************************************)
\* the truth value of a cell: neither None nor ''
Truthy(cell) == cell # None /\ Val(cell) # <<>>

\* os.path.join(pdf_folder, pdf_file)
PathJoin(folder, name) ==
  IF name # <<>> /\ name[1] = 47 THEN name
  ELSE IF folder = <<>> \/ folder[Len(folder)] = 47 THEN folder \o name
  ELSE folder \o <<47>> \o name

\* os.path.basename(pdf_path)
Basename(path) ==
  LET slashes == {i \in 1..Len(path) : path[i] = 47}
  IN IF slashes = {} THEN path ELSE SubSeq(path, SetMax(slashes) + 1, Len(path))

\* filename.replace('.pdf', '')
FilenameWithoutExt(filename) == RemoveAll(filename, s_pdf_ext)

\* the header search over table[:5]: the index (from 0) of the first row with a
\* cell containing 'Наименование', or -1
HeaderIdx(t) ==
  LET last == IF Len(t) < 5 THEN Len(t) ELSE 5
      found == {i \in 0..(last - 1) :
                  \E k \in 1..Len(t[i + 1]) :
                     /\ Truthy(t[i + 1][k])
                     /\ Contains(Val(t[i + 1][k]), s_Naimenovanie)}
  IN IF found = {} THEN -1 ELSE SetMin(found)

\* which branch of the if / elif / elif a header cell takes
HeaderKind(header) ==
  IF ~Truthy(header) THEN "none"
  ELSE LET h == Val(header)
           header_str == RemoveChar(RemoveChar(RemoveChar(Strip(h), 10), 32), 45)
       IN IF Contains(h, s_Naimenovanie) /\ Contains(Lower(h), s_tekhnichesk)
          THEN "name"
          ELSE IF \/ Contains(Lower(header_str), s_kolich)
                  \/ Contains(Lower(header_str), s_kolichestvo)
          THEN "qty"
          ELSE IF Contains(h, s_Zavod) \/ Contains(Lower(h), s_izgotovitel)
          THEN "manufacturer"
          ELSE "none"

\* the column index (from 0) the loop leaves for a kind: the last one, or None
ColumnOf(header_row, kind) ==
  LET cols == {col_idx \in 0..(Len(header_row) - 1) :
                 HeaderKind(header_row[col_idx + 1]) = kind}
  IN IF cols = {} THEN None ELSE Some(SetMax(cols))

Columns(header_row) ==
  [name_col |-> ColumnOf(header_row, "name"),
   qty_col |-> ColumnOf(header_row, "qty"),
   manufacturer_col |-> ColumnOf(header_row, "manufacturer")]

\* filter(None, [name_col, qty_col, manufacturer_col]): None and 0 are dropped
FilterNone(cols) ==
  {Val(c) : c \in {x \in {cols.name_col, cols.qty_col, cols.manufacturer_col} :
                     x # None /\ Val(x) # 0}}

\* row[col] if col is not None else ''
CellOf(r, col) == IF col # None THEN r[Val(col) + 1] ELSE Some(<<>>)

\* the quantity of a row: the first number of the cell's text, or None
ParseQuantity(quantity) ==
  IF Truthy(quantity) /\ Strip(Val(quantity)) # <<>>
  THEN LET quantity_str == RemoveChar(ReplaceChar(Strip(Val(quantity)), 44, 46), 32)
           starts == {i \in 1..Len(quantity_str) : IsDigit(quantity_str[i])}
       IN IF starts = {} THEN None
          ELSE LET i == SetMin(starts)
                   qty_match == SubSeq(quantity_str, i, DecimalEnd(quantity_str, i) - 1)
               IN Some(ParseFloat(ReplaceChar(qty_match, 44, 46)))
  ELSE None

\* str(manufacturer).strip() if manufacturer else ''
CleanManufacturer(manufacturer) ==
  IF Truthy(manufacturer) THEN Strip(Val(manufacturer)) ELSE <<>>

\* a variant that computes a mass for fittings too
MassOf_AnyItem(nomenclature) ==
  IF IsPipeOrFitting(nomenclature) /\ ExtractPipeParameters(nomenclature) # None
  THEN Some(CalculatePipeMassPerMeter(Val(ExtractPipeParameters(nomenclature))[1],
                                      Val(ExtractPipeParameters(nomenclature))[2]))
  ELSE None

\* the mass of a retained row
MassOf(nomenclature) ==
  IF IsPipe(nomenclature)
  THEN LET params == ExtractPipeParameters(nomenclature)
       IN IF params # None
          THEN Some(CalculatePipeMassPerMeter(Val(params)[1], Val(params)[2]))
          ELSE None
  ELSE None

\* the dict appended for row r with the trimmed nomenclature
MakeRecord(nomenclature, r, cols, stem) ==
  [file |-> stem,
   nomenclature |-> nomenclature,
   quantity |-> ParseQuantity(CellOf(r, cols.qty_col)),
   mass |-> MassOf(nomenclature),
   manufacturer |-> CleanManufacturer(CellOf(r, cols.manufacturer_col))]

\* a variant that skips a row whose quantity cannot be parsed
ProcessRow_DropUnparsedQuantity(r, cols, stem) ==
  IF r = <<>> THEN [kind |-> "skip", rec |-> None]
  ELSE IF FilterNone(cols) = {} THEN [kind |-> "raise", rec |-> None]
  ELSE IF Len(r) <= SetMax(FilterNone(cols)) THEN [kind |-> "skip", rec |-> None]
  ELSE IF \/ ~Truthy(CellOf(r, cols.name_col))
          \/ ~IsPipeOrFitting(Strip(Val(CellOf(r, cols.name_col))))
          \/ ParseQuantity(CellOf(r, cols.qty_col)) = None
  THEN [kind |-> "skip", rec |-> None]
  ELSE [kind |-> "record",
        rec |-> Some(MakeRecord(Strip(Val(CellOf(r, cols.name_col))), r, cols, stem))]

\* one iteration of the loop over the data rows: "skip" (continue), "raise"
\* (max() of an empty sequence: ValueError) or "record" with the dict appended;
\* r is the row, stem the filename_without_ext
ProcessRow(r, cols, stem) ==
  IF r = <<>> THEN [kind |-> "skip", rec |-> None]
  ELSE IF FilterNone(cols) = {} THEN [kind |-> "raise", rec |-> None]
  ELSE IF Len(r) <= SetMax(FilterNone(cols)) THEN [kind |-> "skip", rec |-> None]
  ELSE LET cell == CellOf(r, cols.name_col)
       IN IF ~Truthy(cell) \/ Strip(Val(cell)) = <<>>
          THEN [kind |-> "skip", rec |-> None]
          ELSE LET nomenclature == Strip(Val(cell))
               IN IF ~IsPipeOrFitting(nomenclature)
                  THEN [kind |-> "skip", rec |-> None]
                  ELSE [kind |-> "record",
                        rec |-> Some(MakeRecord(nomenclature, r, cols, stem))]

(***************************************************************************)
(* The inputs: file names of the folder, and the documents found in them   *)
(***************************************************************************)
\* the longest directory listing drawn
MaxFiles == 3

\* 'a.pdf'
f_a ==
  <<97, 46, 112, 100, 102>>
\* 'b.pdf'
f_b ==
  <<98, 46, 112, 100, 102>>
\* 'a.pdf.pdf'
f_a2 ==
  <<97, 46, 112, 100, 102, 46, 112, 100, 102>>
\* 'B.pdf'
f_B ==
  <<66, 46, 112, 100, 102>>
\* 'notes.txt'
f_txt ==
  <<110, 111, 116, 101, 115, 46, 116, 120, 116>>
FileNames == {f_a, f_b, f_a2, f_B, f_txt}

\* what os.listdir may return: distinct names, in any order
Listings ==
  UNION {{l \in [1..n -> FileNames] : \A i, j \in 1..n : i # j => l[i] # l[j]} :
           n \in 0..MaxFiles}

\* header cells
\* 'Поз.'
c_pos ==
  <<1055, 1086, 1079, 46>>
\* 'Наименование и техническая характеристика'
c_name ==
  <<1053, 1072, 1080, 1084, 1077, 1085, 1086, 1074, 1072, 1085, 1080, 1077, 32, 1080, 32, 1090, 1077, 1093, 1085, 1080, 1095, 1077, 1089, 1082, 1072, 1103, 32, 1093, 1072, 1088, 1072, 1082, 1090, 1077, 1088, 1080, 1089, 1090, 1080, 1082, 1072>>
\* 'Коли-\nчество'
c_qty ==
  <<1050, 1086, 1083, 1080, 45, 10, 1095, 1077, 1089, 1090, 1074, 1086>>
\* 'Завод-изготовитель'
c_manuf ==
  <<1047, 1072, 1074, 1086, 1076, 45, 1080, 1079, 1075, 1086, 1090, 1086, 1074, 1080, 1090, 1077, 1083, 1100>>
\* 'Наименование'
c_name_only ==
  <<1053, 1072, 1080, 1084, 1077, 1085, 1086, 1074, 1072, 1085, 1080, 1077>>
\* 'Ед.'
c_unit ==
  <<1045, 1076, 46>>
\* 'Тип'
c_type ==
  <<1058, 1080, 1087>>
\* 'Спецификация'
c_title ==
  <<1057, 1087, 1077, 1094, 1080, 1092, 1080, 1082, 1072, 1094, 1080, 1103>>

\* nomenclature, quantity and manufacturer cells
\* 'Труба ПЭ100 SDR17 - 160 х9,50'
n_pipe ==
  <<1058, 1088, 1091, 1073, 1072, 32, 1055, 1069, 49, 48, 48, 32, 83, 68, 82, 49, 55, 32, 45, 32, 49, 54, 48, 32, 1093, 57, 44, 53, 48>>
\* 'Футляр ∅160х23,7'
n_casing ==
  <<1060, 1091, 1090, 1083, 1103, 1088, 32, 8709, 49, 54, 48, 1093, 50, 51, 44, 55>>
\* '  ТРУБА ПЭ  '
n_pipe_nodims ==
  <<32, 32, 1058, 1056, 1059, 1041, 1040, 32, 1055, 1069, 32, 32>>
\* 'Труба 110х6,6'
n_pipe_small ==
  <<1058, 1088, 1091, 1073, 1072, 32, 49, 49, 48, 1093, 54, 44, 54>>
\* 'Муфта 110'
n_coupling ==
  <<1052, 1091, 1092, 1090, 1072, 32, 49, 49, 48>>
\* 'Отвод 90х5'
n_elbow ==
  <<1054, 1090, 1074, 1086, 1076, 32, 57, 48, 1093, 53>>
\* 'Кран шаровой 50х3'
n_valve ==
  <<1050, 1088, 1072, 1085, 32, 1096, 1072, 1088, 1086, 1074, 1086, 1081, 32, 53, 48, 1093, 51>>
\* '   '
n_blank ==
  <<32, 32, 32>>
\* '12,5'
q_12_5 ==
  <<49, 50, 44, 53>>
\* '4 шт'
q_4pcs ==
  <<52, 32, 1096, 1090>>
\* 'шт'
q_pcs ==
  <<1096, 1090>>
\* ' 1 000,25 м'
q_1000 ==
  <<32, 49, 32, 48, 48, 48, 44, 50, 53, 32, 1084>>
\* '3'
q_3 ==
  <<51>>
\* '7.'
q_dot ==
  <<55, 46>>
\* ' Завод А '
m_plantA ==
  <<32, 1047, 1072, 1074, 1086, 1076, 32, 1040, 32>>
\* 'x'
m_x ==
  <<120>>
\* '1'
p_1 ==
  <<49>>

\* header rows
h_full == <<Some(c_pos), Some(c_name), Some(c_qty), Some(c_manuf)>>

h_unresolved == <<Some(c_name_only), Some(c_unit)>>

h_name0 == <<Some(c_name)>>

h_name0_qty == <<Some(c_name), Some(c_qty)>>

h_noname == <<Some(c_name_only), Some(c_qty)>>

r_title == <<Some(c_title)>>

\* data rows
r_pipe == <<Some(p_1), Some(n_pipe), Some(q_12_5), Some(m_plantA)>>

r_casing == <<None, Some(n_casing), Some(q_1000), None>>

r_coupling == <<Some(p_1), Some(n_coupling), Some(q_4pcs), Some(<<>>)>>

r_elbow == <<Some(p_1), Some(n_elbow), None, Some(m_x)>>

r_pipe_nodims == <<Some(p_1), Some(n_pipe_nodims), Some(q_pcs), Some(m_x)>>

r_valve == <<Some(p_1), Some(n_valve), Some(q_3), Some(m_x)>>

r_blank == <<Some(p_1), Some(n_blank), Some(q_3), None>>

r_nonecell == <<Some(p_1), None, Some(q_3), None>>

r_short == <<Some(p_1), Some(n_pipe_small)>>

r_empty == <<>>

\* tables
t_good == <<h_full, r_pipe, r_valve, r_coupling>>

t_more == <<r_title, h_full, r_elbow, r_short, r_empty, r_blank, r_nonecell,
            r_pipe_nodims, r_casing>>

t_one == <<h_full>>

t_nohdr == <<<<Some(c_pos), Some(c_type)>>, r_pipe>>

t_late == <<r_title, r_title, r_title, r_title, r_title, h_full, r_pipe>>

t_unres == <<h_unresolved, <<Some(n_pipe_small), Some(q_3)>>>>

t_name0 == <<h_name0, <<Some(n_pipe_small)>>>>

t_name0qty == <<h_name0_qty, <<Some(n_pipe_small), Some(q_dot)>>>>

t_noname == <<h_noname, <<Some(n_pipe_small), Some(q_3)>>>>

t_unres_quiet == <<h_unresolved, r_empty>>

t_unres_last == <<r_title, h_unresolved>>

Page(tables) == [extract_ok |-> TRUE, tables |-> tables]

PageError == [extract_ok |-> FALSE, tables |-> <<>>]

Doc(pages) == [open_ok |-> TRUE, pages |-> pages]

DocError == [open_ok |-> FALSE, pages |-> <<>>]

\* the documents a file may hold
Docs ==
  {DocError,
   Doc(<<>>),
   Doc(<<Page(<<>>)>>),
   Doc(<<Page(<<t_good>>)>>),
   Doc(<<Page(<<t_good, t_more>>)>>),
   Doc(<<Page(<<t_more>>), Page(<<t_good>>)>>),
   Doc(<<Page(<<t_one, t_nohdr, t_late, t_noname, t_unres_quiet, t_unres_last, t_good>>)>>),
   Doc(<<Page(<<t_good, t_unres, t_more>>)>>),
   Doc(<<Page(<<t_name0>>), Page(<<t_good>>)>>),
   Doc(<<Page(<<t_name0qty>>)>>),
   Doc(<<Page(<<t_good>>), PageError, Page(<<t_more>>)>>)}

(***************************************************************************)
(* parse_pdf_file, one loop iteration per step                             *)
(***************************************************************************)
\* tables = page.extract_tables() of the current page
tables == pdf.pages[page_num].tables

\* the table of the current iteration of "for table in tables"
table == tables[table_idx]

\* the locals of parse_pdf_file before the call and after its return
NoFrame ==
  /\ pdf' = DocError
  /\ filename_without_ext' = <<>>
  /\ data' = <<>>
  /\ raised' = FALSE
  /\ page_num' = 0
  /\ table_idx' = 0
  /\ header_idx' = -1
  /\ name_col' = None
  /\ qty_col' = None
  /\ manufacturer_col' = None
  /\ row_pos' = 0
  /\ row' = <<>>

\* the call parse_pdf_file(pdf_path) up to pdfplumber.open: an open that raises
\* goes to the except clause with data = []
OpenPdf ==
  /\ pc = "files"
  /\ file_idx <= Len(pdf_files)
  /\ \E doc \in Docs :
       LET pdf_path == PathJoin(pdf_folder, pdf_files[file_idx])
           filename == Basename(pdf_path)
       IN /\ pdf' = doc
          /\ filename_without_ext' = FilenameWithoutExt(filename)
          /\ data' = <<>>
          /\ raised' = ~doc.open_ok
          /\ pc' = IF doc.open_ok THEN "page" ELSE "return"
  /\ UNCHANGED <<page_num, table_idx, header_idx, name_col, qty_col,
                 manufacturer_col, row_pos, row>>
  /\ UNCHANGED <<main_vars, excel_vars>>

\* for page_num, page in enumerate(pdf.pages, 1): tables = page.extract_tables()
NextPage ==
  /\ pc = "page"
  /\ IF page_num = Len(pdf.pages)
     THEN /\ pc' = "return"
          /\ UNCHANGED <<page_num, table_idx, raised>>
     ELSE /\ page_num' = page_num + 1
          /\ table_idx' = 0
          /\ IF pdf.pages[page_num + 1].extract_ok
             THEN pc' = "table" /\ UNCHANGED raised
             ELSE pc' = "return" /\ raised' = TRUE
  /\ UNCHANGED <<pdf, filename_without_ext, data, header_idx, name_col, qty_col,
                 manufacturer_col, row_pos, row>>
  /\ UNCHANGED <<main_vars, excel_vars>>

\* for table in tables: the length check, the header search, the column indices
NextTable ==
  /\ pc = "table"
  /\ IF table_idx = Len(tables)
     THEN /\ pc' = "page"
          /\ UNCHANGED <<table_idx, header_idx, name_col, qty_col, manufacturer_col,
                         row_pos>>
     ELSE LET t == tables[table_idx + 1]
          IN /\ table_idx' = table_idx + 1
             /\ IF Len(t) < 2 \/ HeaderIdx(t) = -1
                THEN /\ pc' = "table"
                     /\ UNCHANGED <<header_idx, name_col, qty_col, manufacturer_col,
                                    row_pos>>
                ELSE /\ header_idx' = HeaderIdx(t)
                     /\ name_col' = Columns(t[HeaderIdx(t) + 1]).name_col
                     /\ qty_col' = Columns(t[HeaderIdx(t) + 1]).qty_col
                     /\ manufacturer_col' = Columns(t[HeaderIdx(t) + 1]).manufacturer_col
                     /\ row_pos' = HeaderIdx(t) + 1
                     /\ pc' = "row"
  /\ UNCHANGED <<pdf, filename_without_ext, data, raised, page_num, row>>
  /\ UNCHANGED <<main_vars, excel_vars>>

\* for row in table[header_idx + 1:]: continue, data.append(...), or the
\* ValueError of max() that leaves for the except clause
NextRow ==
  /\ pc = "row"
  /\ IF row_pos = Len(table)
     THEN /\ pc' = "table"
          /\ UNCHANGED <<row_pos, row, data, raised>>
     ELSE LET r == ProcessRow(table[row_pos + 1],
                              [name_col |-> name_col, qty_col |-> qty_col,
                               manufacturer_col |-> manufacturer_col],
                              filename_without_ext)
          IN /\ row_pos' = row_pos + 1
             /\ row' = table[row_pos + 1]
             /\ data' = IF r.kind = "record" THEN Append(data, Val(r.rec)) ELSE data
             /\ raised' = (r.kind = "raise")
             /\ pc' = IF r.kind = "raise" THEN "return" ELSE "row"
  /\ UNCHANGED <<pdf, filename_without_ext, page_num, table_idx, header_idx,
                 name_col, qty_col, manufacturer_col>>
  /\ UNCHANGED <<main_vars, excel_vars>>

\* what is remembered of a finished call: the file, the list returned, whether the
\* except clause ran, and the length of all_data when the list was added to it
CallRecord ==
  [pdf_file |-> pdf_files[file_idx], data |-> data, raised |-> raised,
   start |-> Len(all_data)]

\* a variant whose except clause empties data
ReturnData_DiscardOnError ==
  /\ pc = "return"
  /\ all_data' = IF raised THEN all_data ELSE all_data \o data
  /\ returned' = Append(returned, [CallRecord EXCEPT !.data = IF raised THEN <<>> ELSE data])
  /\ file_idx' = file_idx + 1
  /\ pc' = "files"
  /\ NoFrame
  /\ UNCHANGED <<pdf_files, excel_vars>>

\* a variant that puts the list returned in front of all_data
ReturnData_Prepend ==
  /\ pc = "return"
  /\ all_data' = data \o all_data
  /\ returned' = Append(returned, CallRecord)
  /\ file_idx' = file_idx + 1
  /\ pc' = "files"
  /\ NoFrame
  /\ UNCHANGED <<pdf_files, excel_vars>>

\* the except clause and "return data", then main's all_data.extend(file_data)
\* and the next iteration of "for pdf_file in pdf_files"
ReturnData ==
  /\ pc = "return"
  /\ all_data' = all_data \o data
  /\ returned' = Append(returned, CallRecord)
  /\ file_idx' = file_idx + 1
  /\ pc' = "files"
  /\ NoFrame
  /\ UNCHANGED <<pdf_files, excel_vars>>

(***************************************************************************)
(* create_excel_with_formatting, one record per step                       *)
(*                                                                         *)
(* The sheet ws maps a row number to what was written there; row_log is    *)
(* the order in which the rows were written.                               *)
(***************************************************************************)
\* ws.cell(row=r, ...) for the cells of one sheet row
PutRow(sheet, r, content) == (r :> content) @@ sheet

\* a variant that leaves a blank row above the first banner too
BannerRow_AlwaysBlank(at) == at + 1

\* the sheet row of the banner of a record that opens a new file: one further
\* down, to leave a blank row, unless it is the first banner
BannerRow(at) == IF at > 2 THEN at + 1 ELSE at

\* a variant without the "if not data: return"
StartExcel_NoEmptyCheck ==
  /\ pc = "files"
  /\ file_idx > Len(pdf_files)
  /\ ws' = PutRow(<<>>, 1, [kind |-> "header", values |-> headers])
  /\ row_log' = <<1>>
  /\ current_file' = None
  /\ row_idx' = 2
  /\ idx' = 0
  /\ pc' = "excel"
  /\ UNCHANGED saved
  /\ UNCHANGED <<main_vars, parse_vars>>

\* "if not data: return", else the header row and the start of the loop
StartExcel ==
  /\ pc = "files"
  /\ file_idx > Len(pdf_files)
  /\ IF all_data = <<>>
     THEN /\ pc' = "done"
          /\ UNCHANGED excel_vars
     ELSE /\ ws' = PutRow(<<>>, 1, [kind |-> "header", values |-> headers])
          /\ row_log' = <<1>>
          /\ current_file' = None
          /\ row_idx' = 2
          /\ idx' = 0
          /\ pc' = "excel"
          /\ UNCHANGED saved
  /\ UNCHANGED <<main_vars, parse_vars>>

\* one iteration of "for idx, row in df.iterrows()"
WriteRecord ==
  /\ pc = "excel"
  /\ idx < Len(all_data)
  /\ LET rec == all_data[idx + 1]
         new_file == Some(rec.file) # current_file
         banner_row == BannerRow(row_idx)
         data_row == IF new_file THEN banner_row + 1 ELSE row_idx
         banner == [kind |-> "banner", values |-> <<rec.file>>]
         cells == [kind |-> "data",
                   values |-> <<<<>>, rec.nomenclature, rec.quantity, rec.mass,
                                rec.manufacturer>>]
     IN /\ current_file' = Some(rec.file)
        /\ ws' = IF new_file
                 THEN PutRow(PutRow(ws, banner_row, banner), data_row, cells)
                 ELSE PutRow(ws, data_row, cells)
        /\ row_log' = IF new_file
                      THEN row_log \o <<banner_row, data_row>>
                      ELSE Append(row_log, data_row)
        /\ row_idx' = data_row + 1
  /\ idx' = idx + 1
  /\ UNCHANGED <<pc, saved, main_vars, parse_vars>>

\* wb.save(output_file)
SaveWorkbook ==
  /\ pc = "excel"
  /\ idx = Len(all_data)
  /\ saved' = TRUE
  /\ pc' = "done"
  /\ UNCHANGED <<current_file, row_idx, idx, ws, row_log, main_vars, parse_vars>>

(***************************************************************************)
(* main                                                                    *)
(***************************************************************************)
\* f.endswith('.pdf')
IsPdfName(f) == EndsWith(f, s_pdf_ext)

\* list.sort() of distinct str: the name with k - 1 names below it comes k-th
SortNames(names) ==
  [k \in 1..Len(names) |->
     names[CHOOSE i \in 1..Len(names) :
             Cardinality({j \in 1..Len(names) : StrLess(names[j], names[i])}) = k - 1]]

Init ==
  /\ pc = "list"
  /\ pdf_files = <<>>
  /\ file_idx = 1
  /\ all_data = <<>>
  /\ returned = <<>>
  /\ pdf = DocError
  /\ filename_without_ext = <<>>
  /\ data = <<>>
  /\ raised = FALSE
  /\ page_num = 0
  /\ table_idx = 0
  /\ header_idx = -1
  /\ name_col = None
  /\ qty_col = None
  /\ manufacturer_col = None
  /\ row_pos = 0
  /\ row = <<>>
  /\ current_file = None
  /\ row_idx = 2
  /\ idx = 0
  /\ ws = <<>>
  /\ saved = FALSE
  /\ row_log = <<>>

\* pdf_files = [f for f in os.listdir(pdf_folder) if f.endswith('.pdf')]; pdf_files.sort()
ListFiles ==
  /\ pc = "list"
  /\ \E listing \in Listings : pdf_files' = SortNames(SelectSeq(listing, IsPdfName))
  /\ pc' = "files"
  /\ UNCHANGED <<file_idx, all_data, returned, parse_vars, excel_vars>>

Next ==
  \/ ListFiles
  \/ OpenPdf
  \/ NextPage
  \/ NextTable
  \/ NextRow
  \/ ReturnData
  \/ StartExcel
  \/ WriteRecord
  \/ SaveWorkbook

Spec == Init /\ [][Next]_vars

(***************************************************************************)
(* Properties                                                              *)
(***************************************************************************)
\* every record parse_pdf_file emitted in a run that has ended: all_data then
\* holds every list returned (C4)
Emitted == IF pc = "done" THEN {all_data[i] : i \in DOMAIN all_data} ELSE {}

\* the six keywords a retained nomenclature may hold
Keywords == {s_truba, s_futlyar, s_mufta, s_otvod, s_vtulka, s_flanets}

HasKeyword(text) == \E kw \in Keywords : Contains(Lower(text), kw)

\* C1: a record has a mass exactly when its nomenclature is a pipe and a
\* diameter/thickness pair can be extracted from it; a record that is not a pipe
\* (a fitting, with or without dimensions) has no mass.
C1_MassOnlyForPipesWithDimensions ==
  \A rec \in Emitted :
    /\ (rec.mass # None) <=>
         (IsPipe(rec.nomenclature) /\ ExtractPipeParameters(rec.nomenclature) # None)
    /\ ~IsPipe(rec.nomenclature) => rec.mass = None

\* C1 witness: the run ended and the aggregate holds a pipe with a mass, a pipe without dimensions
\* and a fitting whose text holds dimensions
C1_Witness ==
  /\ pc = "done"
  /\ \E i \in DOMAIN all_data : all_data[i].mass # None
  /\ \E i \in DOMAIN all_data :
       IsPipe(all_data[i].nomenclature) /\ all_data[i].mass = None
  /\ \E i \in DOMAIN all_data :
       /\ ~IsPipe(all_data[i].nomenclature)
       /\ ExtractPipeParameters(all_data[i].nomenclature) # None
       /\ all_data[i].mass = None

\* C2 as claimed: a document whose processing raised contributes no record.
C2_RaisedDocumentContributesNothing ==
  \A i \in DOMAIN returned : returned[i].raised => returned[i].data = <<>>

\* C2 amended: an exception leaves data as it stands and goes to the except
\* clause; the call then returns that data, main adds it to all_data and goes on
\* with the next file.
C2_RaisedDocumentKeepsEarlierRecords ==
  [][/\ (raised' /\ ~raised) => (data' = data /\ pc' = "return")
     /\ pc = "return" =>
          /\ all_data' = all_data \o data
          /\ returned'[Len(returned')].data = data
          /\ returned'[Len(returned')].raised = raised
          /\ file_idx' = file_idx + 1
          /\ pc' = "files"]_vars

\* C2 witness: a document raised after some of its rows had qualified, its
\* records are in all_data, and a later document was processed after it
C2_Witness ==
  \E i \in DOMAIN returned :
    /\ returned[i].raised
    /\ returned[i].data # <<>>
    /\ SubSeq(all_data, returned[i].start + 1, returned[i].start + Len(returned[i].data))
         = returned[i].data
    /\ i < Len(returned)
    /\ returned[i + 1].data # <<>>

\* C3 as claimed: a table whose header row resolves no column, or only a column
\* at index 0, raises no error (it is skipped and the rest of the document is
\* processed).
C3_UnresolvedHeaderRaisesNothing ==
  (/\ pc \in {"row", "return"}
   /\ page_num >= 1
   /\ pdf.open_ok
   /\ pdf.pages[page_num].extract_ok
   /\ table_idx >= 1
   /\ header_idx >= 0
   /\ \A col \in {name_col, qty_col, manufacturer_col} : col = None \/ Val(col) = 0)
  => ~raised

\* the sum of the lengths of the lists returned so far
ReturnedLength ==
  IF returned = <<>> THEN 0
  ELSE returned[Len(returned)].start + Len(returned[Len(returned)].data)

\* the place reached in the document: page, table of the page, row of the table
Cursor == <<page_num, table_idx, row_pos>>

CursorLeq(a, b) ==
  \/ a[1] < b[1]
  \/ a[1] = b[1] /\ a[2] < b[2]
  \/ a[1] = b[1] /\ a[2] = b[2] /\ a[3] <= b[3]

\* the files are in ascending order, were processed in that order, and all_data
\* is the lists returned, one after the other
C4_Aggregate ==
  /\ \A i \in 1..(Len(pdf_files) - 1) : StrLess(pdf_files[i], pdf_files[i + 1])
  /\ Len(returned) = file_idx - 1
  /\ \A i \in DOMAIN returned :
       /\ returned[i].pdf_file = pdf_files[i]
       /\ returned[i].start = IF i = 1 THEN 0
                              ELSE returned[i - 1].start + Len(returned[i - 1].data)
       /\ SubSeq(all_data, returned[i].start + 1,
                 returned[i].start + Len(returned[i].data)) = returned[i].data
  /\ Len(all_data) = ReturnedLength

\* within a document the place only moves forward, and data only grows at its
\* end, by the record of the row just read
C4_InDocument ==
  (pc \in {"page", "table", "row"} /\ pc' \in {"page", "table", "row", "return"}) =>
    /\ CursorLeq(Cursor, Cursor')
    /\ \/ data' = data
       \/ /\ Len(data') = Len(data) + 1
          /\ SubSeq(data', 1, Len(data)) = data
          /\ pc = "row"
          /\ row_pos' = row_pos + 1
          /\ row' = pdf.pages[page_num].tables[table_idx][row_pos']
          /\ data'[Len(data')].nomenclature = Strip(Val(row'[Val(name_col) + 1]))

\* C4: all_data is the concatenation of the lists returned for the files in
\* ascending name order, and the list of a document holds its records in the
\* order page, table, row; nothing is reordered, duplicated or dropped.
C4_OrderPreserved == [][C4_Aggregate' /\ C4_InDocument]_vars

\* C4 witness: two files returned two records or more each, and the run ended
C4_Witness ==
  /\ pc = "done"
  /\ Len(returned) >= 2
  /\ Len(returned[1].data) >= 2
  /\ Len(returned[2].data) >= 2
  /\ returned[1].data # returned[2].data

\* C5: the nomenclature of a record is not empty, is trimmed, passes
\* is_pipe_or_fitting and holds one of the six keywords.
C5_OnlyPipesAndFittingsRetained ==
  \A rec \in Emitted :
    /\ rec.nomenclature # <<>>
    /\ Strip(rec.nomenclature) = rec.nomenclature
    /\ IsPipeOrFitting(rec.nomenclature)
    /\ HasKeyword(rec.nomenclature)

\* the text of the cell of row r in column col ('' when there is none)
TextOf(r, col) ==
  IF col = None \/ Val(col) >= Len(r) \/ r[Val(col) + 1] = None THEN <<>>
  ELSE Val(r[Val(col) + 1])

\* C5 witness: the row just read holds a nomenclature with none of the keywords,
\* and records were retained before it
C5_Witness ==
  /\ pc = "row"
  /\ data # <<>>
  /\ Strip(TextOf(row, name_col)) # <<>>
  /\ ~HasKeyword(TextOf(row, name_col))

\* the checks of lines 148, 156 and 163 on row r of the current table
PassesChecks(r) ==
  /\ r # <<>>
  /\ \E col \in {name_col, qty_col, manufacturer_col} : col # None /\ Val(col) # 0
  /\ \A col \in {name_col, qty_col, manufacturer_col} : col # None => Len(r) > Val(col)
  /\ Strip(TextOf(r, name_col)) # <<>>
  /\ HasKeyword(TextOf(r, name_col))

\* text is digits, or digits, a dot and digits (possibly none)
IsDecimalToken(text) ==
  \E k \in 1..Len(text) :
    /\ \A i \in 1..k : IsDigit(text[i])
    /\ k = Len(text) \/ (text[k + 1] = 46 /\ \A i \in (k + 2)..Len(text) : IsDigit(text[i]))

\* the quantity the claim gives for a cell text: none without a digit, else the
\* longest decimal token at the first digit of the text with commas turned into
\* dots and spaces removed
ClaimedQuantity(text) ==
  LET norm == RemoveChar(ReplaceChar(Strip(text), 44, 46), 32)
      digits == {i \in 1..Len(norm) : IsDigit(norm[i])}
  IN IF digits = {} THEN None
     ELSE LET i == SetMin(digits)
              j == SetMax({e \in i..Len(norm) : IsDecimalToken(SubSeq(norm, i, e))})
          IN Some(ParseFloat(SubSeq(norm, i, j)))

\* C6: a row that passes the column count, nomenclature and pipe-or-fitting
\* checks adds exactly one record, whatever its quantity cell holds; the quantity
\* is None without a number in the cell and the first number otherwise; the loop
\* goes on with the next row.
C6_QuantityNeverDropsRow ==
  [][(pc = "row" /\ row_pos < Len(table) /\ PassesChecks(table[row_pos + 1])) =>
       /\ pc' = "row"
       /\ ~raised'
       /\ Len(data') = Len(data) + 1
       /\ SubSeq(data', 1, Len(data)) = data
       /\ data'[Len(data')].quantity = ClaimedQuantity(TextOf(table[row_pos + 1], qty_col))]_vars

\* C6 witness: the row just read passed the checks with a quantity cell that
\* holds text but no number, and its record has no quantity
C6_Witness ==
  /\ pc = "row"
  /\ PassesChecks(row)
  /\ TextOf(row, qty_col) # <<>>
  /\ data # <<>>
  /\ data[Len(data)].nomenclature = Strip(TextOf(row, name_col))
  /\ data[Len(data)].quantity = None

\* C7: the workbook is saved exactly when the aggregate list is not empty.
C7_SavedIffRecords ==
  /\ pc = "done" => (saved <=> all_data # <<>>)
  /\ pc # "done" => ~saved

\* C7 witness: files were processed, none gave a record, nothing was saved
C7_Witness ==
  /\ pc = "done"
  /\ pdf_files # <<>>
  /\ all_data = <<>>
  /\ ~saved

\* the records that open a run of records of one file
RunStarts ==
  {i \in DOMAIN all_data : i = 1 \/ all_data[i].file # all_data[i - 1].file}

\* the number of runs that start at or before record i
RunsUpTo(i) == Cardinality({s \in RunStarts : s <= i})

\* C8: row 1 is the header; record i, in run r, is at row i + 2r, the banner of
\* the run right above its first record, the row above a banner other than the
\* first is blank; the last row is 1 + n + k + (k - 1) and no row is written twice.
C8_SheetLayout ==
  (pc = "done" /\ saved) =>
    LET n == Len(all_data)
        k == Cardinality(RunStarts)
    IN /\ ws[1] = [kind |-> "header", values |-> headers]
       /\ \A i \in 1..n :
            ws[i + 2 * RunsUpTo(i)] =
              [kind |-> "data",
               values |-> <<<<>>, all_data[i].nomenclature, all_data[i].quantity,
                            all_data[i].mass, all_data[i].manufacturer>>]
       /\ \A s \in RunStarts :
            /\ ws[s + 2 * RunsUpTo(s) - 1] = [kind |-> "banner", values |-> <<all_data[s].file>>]
            /\ RunsUpTo(s) > 1 => (s + 2 * RunsUpTo(s) - 2) \notin DOMAIN ws
       /\ 2 \in DOMAIN ws /\ ws[2].kind = "banner"
       /\ SetMax(DOMAIN ws) = 1 + n + k + (k - 1)
       /\ Cardinality(DOMAIN ws) = 1 + n + k
       /\ Len(row_log) = Cardinality(DOMAIN ws)
       /\ {row_log[i] : i \in DOMAIN row_log} = DOMAIN ws

\* C8 witness: a saved sheet with three runs, one of them of two records or more
C8_Witness ==
  /\ pc = "done"
  /\ saved
  /\ Cardinality(RunStarts) >= 3
  /\ Cardinality(RunStarts) < Len(all_data)

\* C9 as claimed: the mass of a 160 x 9.50 pipe is about 0.43 kg/m.
C9_MassAbout043 ==
  \A rec \in Emitted :
    (IsPipe(rec.nomenclature) /\ ExtractPipeParameters(rec.nomenclature) = Some(<<160, 950>>))
      => (rec.mass # None /\ Val(rec.mass) >= 42 /\ Val(rec.mass) <= 44)

\* C9 amended: calculate_pipe_mass_per_meter(160, 9.50) is the formula's value
\* rounded to two decimals, which is 4.31 kg/m.
C9_Mass431 ==
  \A rec \in Emitted :
    (IsPipe(rec.nomenclature) /\ ExtractPipeParameters(rec.nomenclature) = Some(<<160, 950>>))
      => rec.mass = Some(431)

\* C9 witness: the run ended with a record of a 160 x 9.50 pipe
C9_Witness ==
  \E i \in DOMAIN all_data :
    /\ pc = "done"
    /\ IsPipe(all_data[i].nomenclature)
    /\ ExtractPipeParameters(all_data[i].nomenclature) = Some(<<160, 950>>)

\* C10 as claimed: the tag of a document's records is its file name without the
\* four characters of the trailing extension, and the saved sheet has one banner
\* for each document that gave a record.
C10_OneBannerPerDocument ==
  (pc = "done" /\ saved) =>
    /\ \A i \in DOMAIN returned : \A j \in DOMAIN returned[i].data :
         returned[i].data[j].file =
           SubSeq(returned[i].pdf_file, 1, Len(returned[i].pdf_file) - 4)
    /\ Cardinality({r \in DOMAIN ws : ws[r].kind = "banner"})
         = Cardinality({i \in DOMAIN returned : returned[i].data # <<>>})

====
